---- MODULE Spec2Model ----
(***************************************************************************)
(* Model of src/index.js (lines 1-459): the PIGIER student/grade service.  *)
(* A Node.js process that, at module load, starts initDatabase() without   *)
(* awaiting it, registers the Express routes and calls app.listen().  The  *)
(* store is a PostgreSQL database holding the tables etudiants and notes.  *)
(*                                                                         *)
(* Every pool.query() is one autocommit statement: the store executes it   *)
(* atomically, and the handler's continuation (the code between two        *)
(* awaits) is deterministic in its result, so a statement together with    *)
(* the continuation it resumes is one action.  Handlers of different       *)
(* requests interleave at their awaits, and so does initDatabase().        *)
(*                                                                         *)
(* Units: a note is carried in thousandths on input (10000 is 10.0) and in *)
(* hundredths once stored in the DECIMAL(5,2) column (1000 is 10.00); a    *)
(* coefficient is carried in tenths on input (15 is 1.5) and as an integer *)
(* once stored in the INTEGER column.                                      *)
(*                                                                         *)
(* Not modelled: the optional columns classe and date_naissance, the       *)
(* timestamps and the orderings of the listings, the routes / and /health, *)
(* and store outages while serving (a statement fails here only for a      *)
(* reason the state decides: a missing table, a constraint, a malformed    *)
(* parameter).                                                             *)
(***************************************************************************)
EXTENDS Integers, Sequences, FiniteSets, Bags, TLC

VARIABLES
    initPc,      \* position of initDatabase(): the statement it awaits next
    tblE,        \* TRUE iff the table etudiants exists
    tblN,        \* TRUE iff the table notes exists
    etudiants,   \* rows of etudiants
    notes,       \* rows of notes
    seqE,        \* next value of etudiants_id_seq (SERIAL)
    seqN,        \* next value of notes_id_seq (SERIAL)
    inflight,    \* bag of the requests whose handlers await a query
    response,    \* the response the step just taken has sent, if any
    accepted     \* TRUE iff a request has reached a handler since the start

vars == <<initPc, tblE, tblN, etudiants, notes, seqE, seqN, inflight,
          response, accepted>>

store == <<tblE, tblN, etudiants, notes, seqE, seqN>>

-----------------------------------------------------------------------------
(* Bounds of the model. *)

\* handlers that may be suspended at an await at the same time
MaxInFlight == 2
\* values drawn from etudiants_id_seq per incarnation of the table
MaxEtudiants == 2
\* values drawn from notes_id_seq per incarnation of the table
MaxNotes == 2

-----------------------------------------------------------------------------
(* JavaScript values of a request body or a route parameter. *)

Undef == [t |-> "undefined"]
Null == [t |-> "null"]
Num(n) == [t |-> "number", v |-> n]
Str(s) == [t |-> "string", v |-> s]

\* JavaScript truthiness, as used by the `!x` and `x || y` of the handlers:
\* undefined, null, the empty string and 0 are falsy.
Falsy(x) ==
    \/ x.t \in {"undefined", "null"}
    \/ x.t = "string" /\ x.v = <<>>
    \/ x.t = "number" /\ x.v = 0

WhiteSpace == {" "}

RECURSIVE TrimStart(_)
TrimStart(s) ==
    IF s # <<>> /\ Head(s) \in WhiteSpace THEN TrimStart(Tail(s)) ELSE s

RECURSIVE TrimEnd(_)
TrimEnd(s) ==
    IF s # <<>> /\ s[Len(s)] \in WhiteSpace
    THEN TrimEnd(SubSeq(s, 1, Len(s) - 1))
    ELSE s

\* String.prototype.trim
Trim(s) == TrimEnd(TrimStart(s))

UpperChar(c) ==
    CASE c = "a" -> "A"
      [] c = "b" -> "B"
      [] c = "c" -> "C"
      [] c = "m" -> "M"
      [] OTHER -> c

\* String.prototype.toUpperCase
ToUpperCase(s) == [i \in 1..Len(s) |-> UpperChar(s[i])]

Digits == {"0", "1", "2", "3", "4", "5", "6", "7", "8", "9"}

DigitVal(c) ==
    CASE c = "0" -> 0 [] c = "1" -> 1 [] c = "2" -> 2 [] c = "3" -> 3
      [] c = "4" -> 4 [] c = "5" -> 5 [] c = "6" -> 6 [] c = "7" -> 7
      [] c = "8" -> 8 [] c = "9" -> 9

AllIn(s, S) == \A i \in 1..Len(s) : s[i] \in S

Signed(s) == s # <<>> /\ Head(s) \in {"-", "+"}

Unsigned(s) == IF Signed(s) THEN Tail(s) ELSE s

\* digits, with at most one "." among them and at least one digit
IsStrUnsignedDecimal(s) ==
    /\ AllIn(s, Digits \cup {"."})
    /\ Cardinality({i \in 1..Len(s) : s[i] = "."}) <= 1
    /\ \E i \in 1..Len(s) : s[i] \in Digits

\* 0b / 0B followed by binary digits
IsStrBinaryLiteral(s) ==
    /\ Len(s) >= 3
    /\ s[1] = "0"
    /\ s[2] \in {"b", "B"}
    /\ AllIn(SubSeq(s, 3, Len(s)), {"0", "1"})

\* isNaN(s) of a string s: TRUE iff Number(s) is NaN.  Number() trims the
\* string, maps the empty string to 0 and otherwise wants a numeric literal.
\* Over the characters used here (digits, sign, ".", " ", a, b, c) a literal
\* is a signed decimal or an unsigned binary literal.
JsIsNaN(s) ==
    LET t == Trim(s) IN
    ~ \/ t = <<>>
      \/ IsStrUnsignedDecimal(Unsigned(t))
      \/ IsStrBinaryLiteral(t)

\* the id check shared by the four /:id handlers: `!id || isNaN(id)`
IdInvalid(id) == Falsy(Str(id)) \/ JsIsNaN(id)

RECURSIVE DecimalValue(_)
DecimalValue(s) ==
    IF s = <<>> THEN 0
    ELSE 10 * DecimalValue(SubSeq(s, 1, Len(s) - 1)) + DigitVal(s[Len(s)])

\* The store's reading of a text parameter compared with an INTEGER column
\* (int4in): blanks, an optional sign, then decimal digits and nothing else.
PgIsInt(s) ==
    LET t == Unsigned(Trim(s)) IN t # <<>> /\ AllIn(t, Digits)

PgInt(s) ==
    LET t == Trim(s) IN
    IF Signed(t) /\ Head(t) = "-"
    THEN 0 - DecimalValue(Tail(t))
    ELSE DecimalValue(Unsigned(t))

-----------------------------------------------------------------------------
(* Schema initialisation. *)

InitSteps ==
    <<"connect", "drop_notes", "drop_etudiants", "create_etudiants",
      "create_notes", "index_notes_etudiant_id", "index_etudiants_matricule",
      "index_etudiants_nom", "done">>

InitPcs == {InitSteps[i] : i \in 1..Len(InitSteps)} \cup {"exited"}

NextInitPc(pc) ==
    InitSteps[(CHOOSE i \in 1..Len(InitSteps) : InitSteps[i] = pc) + 1]

\* process.exit(1) has not run
Alive == initPc # "exited"

Idle == [kind |-> "idle"]

NoResponse == [kind |-> "none", status |-> 0, error |-> "", code |-> "none",
               queries |-> 0, req |-> Idle, body |-> {}]

\* The state once the module has been evaluated: initDatabase() is suspended
\* at `await pool.connect()`, the routes are registered and app.listen() has
\* been called.  The database is the one an earlier run left: either without
\* the tables or with them (here empty).
Init ==
    /\ initPc = "connect"
    /\ tblE \in BOOLEAN
    /\ tblN = tblE
    /\ etudiants = {}
    /\ notes = {}
    /\ seqE = 1
    /\ seqN = 1
    /\ inflight = EmptyBag
    /\ response = NoResponse
    /\ accepted = FALSE

\* pool.connect() resolves
InitConnect ==
    /\ initPc = "connect"
    /\ initPc' = NextInitPc(initPc)
    /\ response' = NoResponse
    /\ UNCHANGED <<store, inflight, accepted>>

\* DROP TABLE IF EXISTS notes CASCADE
InitDropNotes ==
    /\ initPc = "drop_notes"
    /\ initPc' = NextInitPc(initPc)
    /\ tblN' = FALSE
    /\ notes' = {}
    /\ seqN' = 1
    /\ response' = NoResponse
    /\ UNCHANGED <<tblE, etudiants, seqE, inflight, accepted>>

\* DROP TABLE IF EXISTS etudiants CASCADE
InitDropEtudiants ==
    /\ initPc = "drop_etudiants"
    /\ initPc' = NextInitPc(initPc)
    /\ tblE' = FALSE
    /\ etudiants' = {}
    /\ seqE' = 1
    /\ response' = NoResponse
    /\ UNCHANGED <<tblN, notes, seqN, inflight, accepted>>

\* CREATE TABLE etudiants (...)
InitCreateEtudiants ==
    /\ initPc = "create_etudiants"
    /\ initPc' = NextInitPc(initPc)
    /\ tblE' = TRUE
    /\ etudiants' = {}
    /\ seqE' = 1
    /\ response' = NoResponse
    /\ UNCHANGED <<tblN, notes, seqN, inflight, accepted>>

\* CREATE TABLE notes (...)
InitCreateNotes ==
    /\ initPc = "create_notes"
    /\ initPc' = NextInitPc(initPc)
    /\ tblN' = TRUE
    /\ notes' = {}
    /\ seqN' = 1
    /\ response' = NoResponse
    /\ UNCHANGED <<tblE, etudiants, seqE, inflight, accepted>>

\* the three CREATE INDEX statements: no effect on the rows
InitCreateIndex ==
    /\ initPc \in {"index_notes_etudiant_id", "index_etudiants_matricule",
                   "index_etudiants_nom"}
    /\ initPc' = NextInitPc(initPc)
    /\ response' = NoResponse
    /\ UNCHANGED <<store, inflight, accepted>>

\* pool.connect() or a statement rejects: the catch rethrows, the finally
\* releases the client and the .catch() of the call site runs
\* process.exit(1), all in one turn of the event loop.
InitFail ==
    /\ initPc \notin {"done", "exited"}
    /\ initPc' = "exited"
    /\ response' = NoResponse
    /\ UNCHANGED <<store, inflight, accepted>>

InitDatabase ==
    \/ InitConnect
    \/ InitDropNotes
    \/ InitDropEtudiants
    \/ InitCreateEtudiants
    \/ InitCreateNotes
    \/ InitCreateIndex
    \/ InitFail

-----------------------------------------------------------------------------
(* The store: one statement is one atomic step.  A statement's outcome is  *)
(* its SQLSTATE ("ok" when it commits), the rows it returns and the store  *)
(* it leaves.  A failed statement leaves the rows alone; a failed INSERT   *)
(* has still drawn its id from the sequence.                               *)

Outcome(code, rows, e, n, se, sn) ==
    [code |-> code, rows |-> rows, etudiants |-> e, notes |-> n,
     seqE |-> se, seqN |-> sn]

Rejected(code) == Outcome(code, {}, etudiants, notes, seqE, seqN)

Returned(rows) == Outcome("ok", rows, etudiants, notes, seqE, seqN)

Commit(o) ==
    /\ etudiants' = o.etudiants
    /\ notes' = o.notes
    /\ seqE' = o.seqE
    /\ seqN' = o.seqN
    /\ UNCHANGED <<tblE, tblN>>

\* a query parameter compared with an INTEGER column: a JavaScript number is
\* sent as its decimal text, a string as it is
PgParamIsInt(p) == p.t = "number" \/ (p.t = "string" /\ PgIsInt(p.v))

PgParamInt(p) == IF p.t = "number" THEN p.v ELSE PgInt(p.v)

\* StmtInsertEtudiant as an upsert: a duplicate matricule replaces the stored
\* row and the statement still reports the unique violation
StmtInsertEtudiantOverwrites(nom, prenom, matricule) ==
    LET row == [id |-> seqE, nom |-> nom, prenom |-> prenom,
                matricule |-> matricule]
        dup == {e \in etudiants : e.matricule = matricule}
    IN  IF ~tblE THEN Rejected("42P01")
        ELSE IF dup # {}
        THEN Outcome("23505", {}, (etudiants \ dup) \cup {row}, notes,
                     seqE + 1, seqN)
        ELSE Outcome("ok", {row}, etudiants \cup {row}, notes, seqE + 1, seqN)

\* StmtInsertEtudiant on a table whose matricule column is not UNIQUE
StmtInsertEtudiantNoUnique(nom, prenom, matricule) ==
    LET row == [id |-> seqE, nom |-> nom, prenom |-> prenom,
                matricule |-> matricule]
    IN  IF ~tblE THEN Rejected("42P01")
        ELSE Outcome("ok", {row}, etudiants \cup {row}, notes, seqE + 1, seqN)

\* INSERT INTO etudiants (nom, prenom, ..., matricule) VALUES (...) RETURNING *
\* on a table with id SERIAL PRIMARY KEY and matricule UNIQUE NOT NULL
StmtInsertEtudiant(nom, prenom, matricule) ==
    LET row == [id |-> seqE, nom |-> nom, prenom |-> prenom,
                matricule |-> matricule]
    IN  IF ~tblE THEN Rejected("42P01")
        ELSE IF \E e \in etudiants : e.matricule = matricule
        THEN Outcome("23505", {}, etudiants, notes, seqE + 1, seqN)
        ELSE Outcome("ok", {row}, etudiants \cup {row}, notes, seqE + 1, seqN)

\* SELECT ... FROM etudiants WHERE id = $1
StmtSelectEtudiant(id) ==
    IF ~tblE THEN Rejected("42P01")
    ELSE IF ~PgParamIsInt(id) THEN Rejected("22P02")
    ELSE Returned({e \in etudiants : e.id = PgParamInt(id)})

\* SELECT * FROM notes WHERE etudiant_id = $1
StmtSelectNotesOf(id) ==
    IF ~tblN THEN Rejected("42P01")
    ELSE IF ~PgParamIsInt(id) THEN Rejected("22P02")
    ELSE Returned({n \in notes : n.etudiant_id = PgParamInt(id)})

\* StmtDeleteEtudiant without the ON DELETE CASCADE: the notes stay
StmtDeleteEtudiantNoCascade(id) ==
    IF ~tblE THEN Rejected("42P01")
    ELSE IF ~PgParamIsInt(id) THEN Rejected("22P02")
    ELSE LET gone == {e \in etudiants : e.id = PgParamInt(id)}
         IN  Outcome("ok", gone, etudiants \ gone, notes, seqE, seqN)

\* DELETE FROM etudiants WHERE id = $1 RETURNING *, with the
\* REFERENCES etudiants(id) ON DELETE CASCADE of notes.etudiant_id
StmtDeleteEtudiant(id) ==
    IF ~tblE THEN Rejected("42P01")
    ELSE IF ~PgParamIsInt(id) THEN Rejected("22P02")
    ELSE LET gone == {e \in etudiants : e.id = PgParamInt(id)}
         IN  Outcome("ok", gone, etudiants \ gone,
                     {n \in notes : n.etudiant_id # PgParamInt(id)},
                     seqE, seqN)

\* DELETE FROM notes WHERE id = $1 RETURNING *
StmtDeleteNote(id) ==
    IF ~tblN THEN Rejected("42P01")
    ELSE IF ~PgParamIsInt(id) THEN Rejected("22P02")
    ELSE LET gone == {n \in notes : n.id = PgParamInt(id)}
         IN  Outcome("ok", gone, etudiants, notes \ gone, seqE, seqN)

NoteMin == 0
NoteMax == 20
CoefMin == 1
CoefMax == 10
\* thousandths per unit of an input note, hundredths per unit of a stored one
NoteInScale == 1000
NoteScale == 100
\* tenths per unit of an input coefficient
CoefInScale == 10

\* DECIMAL(5,2): an input in thousandths rounded, half away from zero, to
\* hundredths
PgNumeric52(x) ==
    LET k == NoteInScale \div NoteScale
        a == IF x < 0 THEN 0 - x ELSE x
        r == (a + (k \div 2)) \div k
    IN  IF x < 0 THEN 0 - r ELSE r

\* parseInt of a number given in tenths: its integer part
ParseInt(x) ==
    IF x < 0 THEN 0 - ((0 - x) \div CoefInScale) ELSE x \div CoefInScale

\* INSERT INTO notes (etudiant_id, matiere, note, coefficient) VALUES (...)
\* RETURNING *, with the CHECKs on note and coefficient and the foreign key
StmtInsertNote(etudiant_id, matiere, note, coefficient) ==
    LET row == [id |-> seqN, etudiant_id |-> PgParamInt(etudiant_id),
                matiere |-> matiere, note |-> PgNumeric52(note),
                coefficient |-> coefficient]
        failed(code) == Outcome(code, {}, etudiants, notes, seqE, seqN + 1)
    IN  IF ~tblN THEN Rejected("42P01")
        ELSE IF ~PgParamIsInt(etudiant_id) THEN Rejected("22P02")
        ELSE IF \/ row.note < NoteMin * NoteScale
                \/ row.note > NoteMax * NoteScale
                \/ row.coefficient < CoefMin
                \/ row.coefficient > CoefMax
        THEN failed("23514")
        ELSE IF ~ \E e \in etudiants : e.id = row.etudiant_id
        THEN failed("23503")
        ELSE Outcome("ok", {row}, etudiants, notes \cup {row}, seqE, seqN + 1)

\* SUM(n.note * n.coefficient) over the rows S
RECURSIVE SumWeighted(_)
SumWeighted(S) ==
    IF S = {} THEN 0
    ELSE LET n == CHOOSE x \in S : TRUE
         IN  n.note * n.coefficient + SumWeighted(S \ {n})

\* SUM(n.coefficient) over the rows S
RECURSIVE SumCoefficients(_)
SumCoefficients(S) ==
    IF S = {} THEN 0
    ELSE LET n == CHOOSE x \in S : TRUE
         IN  n.coefficient + SumCoefficients(S \ {n})

\* the integers nearest to p / q (p >= 0, q > 0): both neighbours on a tie
Nearest(p, q) ==
    LET fl == p \div q
        rem == p % q
    IN  IF 2 * rem < q THEN {fl}
        ELSE IF 2 * rem > q THEN {fl + 1}
        ELSE {fl, fl + 1}

\* SUM(n.note) over the rows S
RECURSIVE SumNotes(_)
SumNotes(S) ==
    IF S = {} THEN 0
    ELSE LET n == CHOOSE x \in S : TRUE IN n.note + SumNotes(S \ {n})

\* Moyennes with the coefficients left out: ROUND(AVG(n.note), 2)
MoyennesUnweighted(G) ==
    IF G = {} THEN {Null}
    ELSE {Num(m) : m \in Nearest(SumNotes(G), Cardinality(G))}

\* ROUND(AVG(n.note * n.coefficient) / NULLIF(AVG(n.coefficient), 0), 2) over
\* the notes G of one student, in hundredths.  AVG over no row is NULL and
\* NULL propagates.  Each AVG is the sum over the count; their quotient is
\* (sum1 / count) / (sum2 / count).  The store computes the two AVGs and the
\* quotient as NUMERIC values of at least 16 significant digits, so a
\* quotient that lies exactly halfway between two hundredths may be rounded
\* to either: both are outcomes.
Moyennes(G) ==
    LET count == Cardinality(G)
        avgNum == [num |-> SumWeighted(G), den |-> count]
        avgDen == [num |-> SumCoefficients(G), den |-> count]
    IN  IF count = 0 \/ avgDen.num = 0 THEN {Null}
        ELSE {Num(m) : m \in Nearest(avgNum.num * avgDen.den,
                                     avgNum.den * avgDen.num)}

\* SELECT e.*, COUNT(n.id), ROUND(...) FROM etudiants e LEFT JOIN notes n
\* ON e.id = n.etudiant_id GROUP BY e.id: the possible result sets
StmtSelectEtudiantsAggregates ==
    IF ~tblE \/ ~tblN THEN {Rejected("42P01")}
    ELSE LET G(e) == {n \in notes : n.etudiant_id = e.id}
             ids == {e.id : e \in etudiants}
         IN  {Returned({[id |-> e.id, matricule |-> e.matricule,
                         nombre_notes |-> Cardinality(G(e)),
                         moyenne |-> f[e.id]] : e \in etudiants})
              : f \in {g \in [ids -> UNION {Moyennes(G(e)) : e \in etudiants}] :
                         \A e \in etudiants : g[e.id] \in Moyennes(G(e))}}

\* SELECT n.*, e.nom, ... FROM notes n INNER JOIN etudiants e
\* ON n.etudiant_id = e.id
StmtSelectNotesJoined ==
    IF ~tblE \/ ~tblN THEN Rejected("42P01")
    ELSE Returned({[id |-> n.id, etudiant_id |-> n.etudiant_id,
                    note |-> n.note, coefficient |-> n.coefficient,
                    matricule |-> e.matricule]
                   : <<n, e>> \in {p \in notes \X etudiants :
                                     p[1].etudiant_id = p[2].id}})

-----------------------------------------------------------------------------
(* Requests and responses. *)

Response(r, status, error, code, queries, body) ==
    [kind |-> r.kind, status |-> status, error |-> error, code |-> code,
     queries |-> queries, req |-> r, body |-> body]

\* the suspended handlers of one route
Pending(kind) ==
    BagCardinality([r \in {x \in BagToSet(inflight) : x.kind = kind}
                      |-> inflight[r]])

\* the handler suspends at its first await
Suspend(r) ==
    /\ BagCardinality(inflight) < MaxInFlight
    /\ inflight' = inflight (+) SetToBag({r})
    /\ response' = NoResponse
    /\ accepted' = TRUE
    /\ UNCHANGED <<initPc, store>>

\* the handler answers before any await
Answer(resp) ==
    /\ response' = resp
    /\ accepted' = TRUE
    /\ UNCHANGED <<initPc, store, inflight>>

\* the suspended handler r answers after a statement with outcome o
Finish(r, o, resp) ==
    /\ Commit(o)
    /\ response' = resp
    /\ inflight' = inflight (-) SetToBag({r})
    /\ UNCHANGED <<initPc, accepted>>

\* the suspended handler r goes on to its next await, as r2, after outcome o
Continue(r, o, r2) ==
    /\ Commit(o)
    /\ inflight' = (inflight (-) SetToBag({r})) (+) SetToBag({r2})
    /\ response' = NoResponse
    /\ UNCHANGED <<initPc, accepted>>

-----------------------------------------------------------------------------
(* POST /api/etudiants *)

IsString(x) == x.t = "string"

\* the parameters of the INSERT: nom.trim(), prenom.trim(),
\* matricule.trim().toUpperCase()
PostEtudiantParams(r) ==
    [nom |-> Trim(r.nom.v), prenom |-> Trim(r.prenom.v),
     matricule |-> ToUpperCase(Trim(r.matricule.v))]

\* `!nom || !prenom || !matricule`
PostEtudiantMissing(nom, prenom, matricule) ==
    Falsy(nom) \/ Falsy(prenom) \/ Falsy(matricule)

\* the handler up to its await: the presence check, then the parameters
\* (.trim() of a value that is no string throws inside the try)
PostEtudiantArrive(nom, prenom, matricule) ==
    LET r == [kind |-> "PostEtudiant", pc |-> "insert", nom |-> nom,
              prenom |-> prenom, matricule |-> matricule]
    IN  /\ Alive
        /\ IF PostEtudiantMissing(nom, prenom, matricule)
           THEN Answer(Response(r, 400,
                    "Nom, prenom et matricule sont obligatoires", "none", 0, {}))
           ELSE IF ~(IsString(nom) /\ IsString(prenom) /\ IsString(matricule))
           THEN Answer(Response(r, 500, "Erreur lors de l'inscription",
                                "TypeError", 0, {}))
           ELSE /\ seqE + Pending("PostEtudiant") <= MaxEtudiants
                /\ Suspend(r)

\* the INSERT and the rest of the handler
PostEtudiantInsert(r) ==
    LET a == PostEtudiantParams(r)
        o == StmtInsertEtudiant(a.nom, a.prenom, a.matricule)
    IN  /\ Alive
        /\ r.kind = "PostEtudiant"
        /\ Finish(r, o,
              IF o.code = "ok" THEN Response(r, 200, "", o.code, 1, o.rows)
              ELSE IF o.code = "23505"
              THEN Response(r, 400, "Ce matricule existe deja", o.code, 1, {})
              ELSE Response(r, 500, "Erreur lors de l'inscription", o.code, 1, {}))

-----------------------------------------------------------------------------
(* GET /api/etudiants *)

GetEtudiantsArrive ==
    /\ Alive
    /\ Suspend([kind |-> "GetEtudiants", pc |-> "select"])

GetEtudiantsSelect(r) ==
    /\ Alive
    /\ r.kind = "GetEtudiants"
    /\ \E o \in StmtSelectEtudiantsAggregates :
          Finish(r, o,
             IF o.code = "ok" THEN Response(r, 200, "", o.code, 1, o.rows)
             ELSE Response(r, 500,
                     "Erreur lors de la recuperation des etudiants",
                     o.code, 1, {}))

-----------------------------------------------------------------------------
(* GET /api/etudiants/:id and GET /api/export/etudiant/:id: the same code  *)
(* but for the ORDER BY of the second SELECT and the 500 message.          *)

FetchError(kind) ==
    IF kind = "GetEtudiant" THEN "Erreur lors de la recuperation"
    ELSE "Erreur lors de l'export"

FetchArrive(kind, id) ==
    LET r == [kind |-> kind, pc |-> "select_etudiant", id |-> id,
              etudiant |-> {}]
    IN  /\ Alive
        /\ IF IdInvalid(id)
           THEN Answer(Response(r, 400, "ID invalide", "none", 0, {}))
           ELSE Suspend(r)

\* SELECT * FROM etudiants WHERE id = $1, then the 404 or the second query
FetchSelectEtudiant(r) ==
    LET o == StmtSelectEtudiant(Str(r.id))
    IN  /\ Alive
        /\ r.kind \in {"GetEtudiant", "Export"}
        /\ r.pc = "select_etudiant"
        /\ IF o.code # "ok"
           THEN Finish(r, o, Response(r, 500, FetchError(r.kind), o.code, 1, {}))
           ELSE IF o.rows = {}
           THEN Finish(r, o, Response(r, 404, "Etudiant non trouve", o.code, 1, {}))
           ELSE Continue(r, o, [r EXCEPT !.pc = "select_notes",
                                         !.etudiant = o.rows])

\* SELECT * FROM notes WHERE etudiant_id = $1, then the answer
FetchSelectNotes(r) ==
    LET o == StmtSelectNotesOf(Str(r.id))
    IN  /\ Alive
        /\ r.kind \in {"GetEtudiant", "Export"}
        /\ r.pc = "select_notes"
        /\ Finish(r, o,
              IF o.code = "ok" THEN Response(r, 200, "", o.code, 2, o.rows)
              ELSE Response(r, 500, FetchError(r.kind), o.code, 2, {}))

GetEtudiantArrive(id) == FetchArrive("GetEtudiant", id)

ExportArrive(id) == FetchArrive("Export", id)

-----------------------------------------------------------------------------
(* DELETE /api/etudiants/:id *)

DeleteEtudiantArrive(id) ==
    LET r == [kind |-> "DeleteEtudiant", pc |-> "delete", id |-> id]
    IN  /\ Alive
        /\ IF IdInvalid(id)
           THEN Answer(Response(r, 400, "ID invalide", "none", 0, {}))
           ELSE Suspend(r)

DeleteEtudiantDelete(r) ==
    LET o == StmtDeleteEtudiant(Str(r.id))
    IN  /\ Alive
        /\ r.kind = "DeleteEtudiant"
        /\ Finish(r, o,
              IF o.code # "ok"
              THEN Response(r, 500, "Erreur lors de la suppression", o.code, 1, {})
              ELSE IF o.rows = {}
              THEN Response(r, 404, "Etudiant non trouve", o.code, 1, {})
              ELSE Response(r, 200, "", o.code, 1, {}))

-----------------------------------------------------------------------------
(* POST /api/notes *)

\* `!etudiant_id || !matiere || note === undefined`
PostNoteMissing(etudiant_id, matiere, note) ==
    Falsy(etudiant_id) \/ Falsy(matiere) \/ note = Undef

\* `note < 0 || note > 20`, the note in thousandths
NoteOutOfRange(note) ==
    note.v < NoteMin * NoteInScale \/ note.v > NoteMax * NoteInScale

\* `coefficient || 1`, in tenths
ResolveCoef(coefficient) ==
    IF Falsy(coefficient) THEN Num(1 * CoefInScale) ELSE coefficient

\* `coef < 1 || coef > 10`, the coefficient in tenths
CoefOutOfRange(coef) ==
    coef.v < CoefMin * CoefInScale \/ coef.v > CoefMax * CoefInScale

\* the handler up to its first await: the three validations
PostNoteArrive(etudiant_id, matiere, note, coefficient) ==
    LET coef == ResolveCoef(coefficient)
        r == [kind |-> "PostNote", pc |-> "check", etudiant_id |-> etudiant_id,
              matiere |-> matiere, note |-> note, coefficient |-> coefficient,
              coef |-> coef]
    IN  /\ Alive
        /\ IF PostNoteMissing(etudiant_id, matiere, note)
           THEN Answer(Response(r, 400,
                    "Etudiant, matiere et note sont obligatoires", "none", 0, {}))
           ELSE IF NoteOutOfRange(note)
           THEN Answer(Response(r, 400, "La note doit etre entre 0 et 20",
                                "none", 0, {}))
           ELSE IF CoefOutOfRange(coef)
           THEN Answer(Response(r, 400,
                    "Le coefficient doit etre entre 1 et 10", "none", 0, {}))
           ELSE /\ seqN + Pending("PostNote") <= MaxNotes
                /\ Suspend(r)

\* SELECT id FROM etudiants WHERE id = $1, then the 404 or the INSERT
PostNoteCheck(r) ==
    LET o == StmtSelectEtudiant(r.etudiant_id)
    IN  /\ Alive
        /\ r.kind = "PostNote"
        /\ r.pc = "check"
        /\ IF o.code # "ok"
           THEN Finish(r, o, Response(r, 500, "Erreur lors de l'ajout de la note",
                                      o.code, 1, {}))
           ELSE IF o.rows = {}
           THEN Finish(r, o, Response(r, 404, "Etudiant non trouve", o.code, 1, {}))
           ELSE Continue(r, o, [r EXCEPT !.pc = "insert"])

\* the parameters of the INSERT: etudiant_id, matiere.trim(),
\* parseFloat(note), parseInt(coef)
PostNoteParams(r) ==
    [etudiant_id |-> r.etudiant_id, matiere |-> Trim(r.matiere.v),
     note |-> r.note.v, coefficient |-> ParseInt(r.coef.v)]

\* the INSERT and the rest of the handler
PostNoteInsert(r) ==
    LET a == PostNoteParams(r)
        o == StmtInsertNote(a.etudiant_id, a.matiere, a.note, a.coefficient)
    IN  /\ Alive
        /\ r.kind = "PostNote"
        /\ r.pc = "insert"
        /\ Finish(r, o,
              IF o.code = "ok" THEN Response(r, 200, "", o.code, 2, o.rows)
              ELSE Response(r, 500, "Erreur lors de l'ajout de la note",
                            o.code, 2, {}))

-----------------------------------------------------------------------------
(* GET /api/notes *)

GetNotesArrive ==
    /\ Alive
    /\ Suspend([kind |-> "GetNotes", pc |-> "select"])

GetNotesSelect(r) ==
    LET o == StmtSelectNotesJoined
    IN  /\ Alive
        /\ r.kind = "GetNotes"
        /\ Finish(r, o,
              IF o.code = "ok" THEN Response(r, 200, "", o.code, 1, o.rows)
              ELSE Response(r, 500, "Erreur lors de la recuperation des notes",
                            o.code, 1, {}))

-----------------------------------------------------------------------------
(* DELETE /api/notes/:id *)

DeleteNoteArrive(id) ==
    LET r == [kind |-> "DeleteNote", pc |-> "delete", id |-> id]
    IN  /\ Alive
        /\ IF IdInvalid(id)
           THEN Answer(Response(r, 400, "ID invalide", "none", 0, {}))
           ELSE Suspend(r)

DeleteNoteDelete(r) ==
    LET o == StmtDeleteNote(Str(r.id))
    IN  /\ Alive
        /\ r.kind = "DeleteNote"
        /\ Finish(r, o,
              IF o.code # "ok"
              THEN Response(r, 500, "Erreur lors de la suppression", o.code, 1, {})
              ELSE IF o.rows = {}
              THEN Response(r, 404, "Note non trouvee", o.code, 1, {})
              ELSE Response(r, 200, "", o.code, 1, {}))

-----------------------------------------------------------------------------------------------------------------------------------------------------------------------------------------------------------------------------
(* The service: initDatabase() and the handlers of all eight /api routes,  *)
(* interleaved at their awaits.  The requests are the few that make the    *)
(* handlers meet: one student, one grade, one id.                          *)

Noms == {Undef, Str(<<"a">>)}
Prenoms == {Str(<<"b">>)}
Matricules == {Str(<<"m">>)}
IdParams == {<<"a", "b", "c">>, <<"1">>}
EtudiantIds == {Num(1)}
Matieres == {Str(<<"m">>)}
NoteInputs == {Num(10000), Num(20001)}
CoefInputs == {Undef}

\* a handler runs up to its first await (or its early return)
Arrive ==
    \/ \E nom \in Noms, prenom \in Prenoms, matricule \in Matricules :
          PostEtudiantArrive(nom, prenom, matricule)
    \/ GetEtudiantsArrive
    \/ \E id \in IdParams : GetEtudiantArrive(id)
    \/ \E id \in IdParams : DeleteEtudiantArrive(id)
    \/ \E e \in EtudiantIds, m \in Matieres, n \in NoteInputs, c \in CoefInputs :
          PostNoteArrive(e, m, n, c)
    \/ GetNotesArrive
    \/ \E id \in IdParams : DeleteNoteArrive(id)
    \/ \E id \in IdParams : ExportArrive(id)

\* a suspended handler resumes with the result of its query
Resume ==
    \/ \E r \in BagToSet(inflight) : PostEtudiantInsert(r)
    \/ \E r \in BagToSet(inflight) : GetEtudiantsSelect(r)
    \/ \E r \in BagToSet(inflight) : FetchSelectEtudiant(r)
    \/ \E r \in BagToSet(inflight) : FetchSelectNotes(r)
    \/ \E r \in BagToSet(inflight) : DeleteEtudiantDelete(r)
    \/ \E r \in BagToSet(inflight) : PostNoteCheck(r)
    \/ \E r \in BagToSet(inflight) : PostNoteInsert(r)
    \/ \E r \in BagToSet(inflight) : GetNotesSelect(r)
    \/ \E r \in BagToSet(inflight) : DeleteNoteDelete(r)

Next == InitDatabase \/ Arrive \/ Resume

Spec == Init /\ [][Next]_vars

\* The service once initDatabase() has completed with no request served
\* meanwhile: a state Spec reaches by the steps of initDatabase() alone.
InitServing ==
    /\ initPc = "done"
    /\ tblE = TRUE
    /\ tblN = TRUE
    /\ etudiants = {}
    /\ notes = {}
    /\ seqE = 1
    /\ seqN = 1
    /\ inflight = EmptyBag
    /\ response = NoResponse
    /\ accepted = FALSE

NextServing == Arrive \/ Resume

SpecServing == InitServing /\ [][NextServing]_vars

-----------------------------------------------------------------------------------------------------------------------------------------------------
(* The student routes under blank, padded and mixed-case fields.           *)

\* bodies <<nom, prenom, matricule>> of POST /api/etudiants
BodiesEtudiants ==
    {<<Str(<<"a">>), Str(<<"b">>), Str(<<"m">>)>>,
     <<Str(<<"a">>), Str(<<"b">>), Str(<<" ", "M", " ">>)>>,
     <<Str(<<"a">>), Str(<<"b">>), Str(<<"c">>)>>,
     <<Undef, Str(<<"b">>), Str(<<"m">>)>>,
     <<Str(<<>>), Str(<<"b">>), Str(<<"m">>)>>,
     <<Str(<<" ">>), Str(<<"b">>), Str(<<"m">>)>>,
     <<Str(<<"a">>), Str(<<" ">>), Str(<<"m">>)>>,
     <<Str(<<"a">>), Str(<<"b">>), Str(<<" ">>)>>,
     <<Str(<<"a">>), Str(<<"b">>), Null>>,
     <<Num(1), Str(<<"b">>), Str(<<"m">>)>>}
IdParamsEtudiants == {<<"1">>, <<"2">>}

ArriveEtudiants ==
    \/ \E b \in BodiesEtudiants : PostEtudiantArrive(b[1], b[2], b[3])
    \/ \E id \in IdParamsEtudiants : DeleteEtudiantArrive(id)

ResumeEtudiants ==
    \/ \E r \in BagToSet(inflight) : PostEtudiantInsert(r)
    \/ \E r \in BagToSet(inflight) : DeleteEtudiantDelete(r)

NextEtudiants == InitDatabase \/ ArriveEtudiants \/ ResumeEtudiants

SpecEtudiants == Init /\ [][NextEtudiants]_vars

-----------------------------------------------------------------------------------------------------------------------------------------------------
(* The grades of one student and the averages of GET /api/etudiants.       *)

\* bodies <<etudiant_id, matiere, note, coefficient>> of POST /api/notes:
\* 10, 16 with coefficient 3, 19.996 with coefficient 1.5, 10.01, and a note
\* above 20
BodiesMoyenne ==
    {<<Num(1), Str(<<"m">>), Num(10000), Undef>>,
     <<Num(1), Str(<<"m">>), Num(16000), Num(30)>>,
     <<Num(1), Str(<<"m">>), Num(19996), Num(15)>>,
     <<Num(1), Str(<<"m">>), Num(10010), Undef>>,
     <<Num(1), Str(<<"m">>), Num(20001), Undef>>}

ArriveMoyenne ==
    \/ \E nom \in {Str(<<"a">>)}, prenom \in Prenoms, matricule \in Matricules :
          PostEtudiantArrive(nom, prenom, matricule)
    \/ \E b \in BodiesMoyenne : PostNoteArrive(b[1], b[2], b[3], b[4])
    \/ GetEtudiantsArrive

ResumeMoyenne ==
    \/ \E r \in BagToSet(inflight) : PostEtudiantInsert(r)
    \/ \E r \in BagToSet(inflight) : PostNoteCheck(r)
    \/ \E r \in BagToSet(inflight) : PostNoteInsert(r)
    \/ \E r \in BagToSet(inflight) : GetEtudiantsSelect(r)

NextMoyenne == InitDatabase \/ ArriveMoyenne \/ ResumeMoyenne

SpecMoyenne == Init /\ [][NextMoyenne]_vars

-----------------------------------------------------------------------------
(* POST /api/notes at and around the limits of note and coefficient.       *)

\* bodies <<etudiant_id, matiere, note, coefficient>>: the notes 0, 20,
\* 19.996, -0.001 and 20.001, the coefficients 1, 10, 1.5, 0, 0.5 and 10.5,
\* and the bodies with a field missing
BodiesNotes ==
    {<<Num(1), Str(<<"m">>), Num(0), Undef>>,
     <<Num(1), Str(<<"m">>), Num(20000), Num(100)>>,
     <<Num(1), Str(<<"m">>), Num(19996), Num(15)>>,
     <<Num(1), Str(<<"m">>), Num(10000), Num(10)>>,
     <<Num(1), Str(<<"m">>), Num(10000), Num(0)>>,
     <<Num(1), Str(<<"m">>), Num(-1), Undef>>,
     <<Num(1), Str(<<"m">>), Num(20001), Undef>>,
     <<Num(1), Str(<<"m">>), Num(10000), Num(5)>>,
     <<Num(1), Str(<<"m">>), Num(10000), Num(105)>>,
     <<Num(1), Str(<<"m">>), Undef, Undef>>,
     <<Num(1), Undef, Num(10000), Undef>>,
     <<Undef, Str(<<"m">>), Num(10000), Undef>>}

ArriveNotes ==
    \/ \E nom \in {Str(<<"a">>)}, prenom \in Prenoms, matricule \in Matricules :
          PostEtudiantArrive(nom, prenom, matricule)
    \/ \E b \in BodiesNotes : PostNoteArrive(b[1], b[2], b[3], b[4])

ResumeNotes ==
    \/ \E r \in BagToSet(inflight) : PostEtudiantInsert(r)
    \/ \E r \in BagToSet(inflight) : PostNoteCheck(r)
    \/ \E r \in BagToSet(inflight) : PostNoteInsert(r)

NextNotes == InitDatabase \/ ArriveNotes \/ ResumeNotes

SpecNotes == Init /\ [][NextNotes]_vars

-----------------------------------------------------------------------------
(* The four /:id routes under well-formed and malformed ids, once the      *)
(* schema is initialised.                                                  *)

IdParamsIds ==
    {<<"a", "b", "c">>, <<"-", "1">>, <<"0">>, <<"1", ".", "5">>, <<"1">>}

ArriveIds ==
    \/ \E nom \in {Str(<<"a">>)}, prenom \in Prenoms, matricule \in Matricules :
          PostEtudiantArrive(nom, prenom, matricule)
    \/ \E e \in EtudiantIds, m \in Matieres, n \in {Num(10000)}, c \in CoefInputs :
          PostNoteArrive(e, m, n, c)
    \/ \E id \in IdParamsIds : GetEtudiantArrive(id)
    \/ \E id \in IdParamsIds : DeleteEtudiantArrive(id)
    \/ \E id \in IdParamsIds : DeleteNoteArrive(id)
    \/ \E id \in IdParamsIds : ExportArrive(id)

ResumeIds ==
    \/ \E r \in BagToSet(inflight) : PostEtudiantInsert(r)
    \/ \E r \in BagToSet(inflight) : PostNoteCheck(r)
    \/ \E r \in BagToSet(inflight) : PostNoteInsert(r)
    \/ \E r \in BagToSet(inflight) : FetchSelectEtudiant(r)
    \/ \E r \in BagToSet(inflight) : FetchSelectNotes(r)
    \/ \E r \in BagToSet(inflight) : DeleteEtudiantDelete(r)
    \/ \E r \in BagToSet(inflight) : DeleteNoteDelete(r)

NextIds == ArriveIds \/ ResumeIds

SpecIds == InitServing /\ [][NextIds]_vars

-----
(* Properties. *)

\* the student the request r of POST /api/notes names is stored
EtudiantStored(r) ==
    \E e \in etudiants : e.id = PgParamInt(r.etudiant_id)

\* C1: no handler of an /api route issues a store query until initDatabase()
\* has completed: whenever a handler is suspended at a query, or has just
\* answered after one, the schema initialisation is done.
C1_NoQueryBeforeInitDone ==
    (inflight # EmptyBag \/ response.queries > 0) => initPc = "done"

\* C2: when initDatabase() fails the process halts without any request
\* handler having run.
C2_NoHandlerWhenInitFails ==
    initPc = "exited" => ~accepted

\* C3: a POST /api/notes whose etudiant_id names no stored student is answered
\* 404 and inserts no row, whichever of its two statements meets the absence
\* (the existence check, or the INSERT after a DELETE of the student has
\* committed in between).
C3_NotFoundInEveryInterleaving ==
    [][\A r \in BagToSet(inflight) :
          (/\ r.kind = "PostNote"
           /\ ~EtudiantStored(r)
           /\ PostNoteCheck(r) \/ PostNoteInsert(r))
          => (response'.status = 404 /\ notes' = notes)]_vars

\* every row of notes references a row of etudiants
ReferentialIntegrity ==
    \A n \in notes : \E e \in etudiants : e.id = n.etudiant_id

\* C4: every grade references a stored student, in every reachable state; a
\* successful DELETE /api/etudiants/:id leaves no grade of that id; and every
\* GET /api/notes lists only grades of stored students.
C4_CascadeAndReferentialIntegrity ==
    /\ ReferentialIntegrity
    /\ (response.kind = "DeleteEtudiant" /\ response.status = 200)
          => ~ \E n \in notes : n.etudiant_id = PgInt(response.req.id)
    /\ (response.kind = "GetNotes" /\ response.status = 200)
          => \A row \in response.body :
                \E e \in etudiants : e.id = row.etudiant_id

\* C4: a student is deleted, with the schema initialised, after a grade had
\* been given an id, and no grade is left
C4_Witness ==
    /\ response.kind = "DeleteEtudiant"
    /\ response.status = 200
    /\ initPc = "done"
    /\ seqN > 1
    /\ notes = {}

WriteKinds == {"PostEtudiant", "PostNote", "DeleteEtudiant", "DeleteNote"}

\* the rows change from this state to the next
RowsChange == etudiants' # etudiants \/ notes' # notes

\* the rows change by exactly what the successful answer resp stands for
ExactEffect(resp) ==
    CASE resp.kind = "PostEtudiant" ->
            /\ notes' = notes
            /\ \E row \in etudiants' \ etudiants :
                  etudiants' = etudiants \cup {row}
      [] resp.kind = "PostNote" ->
            /\ etudiants' = etudiants
            /\ \E row \in notes' \ notes : notes' = notes \cup {row}
      [] resp.kind = "DeleteNote" ->
            /\ etudiants' = etudiants
            /\ \E row \in notes :
                  row.id = PgInt(resp.req.id) /\ notes' = notes \ {row}
      [] resp.kind = "DeleteEtudiant" ->
            \E row \in etudiants :
                /\ row.id = PgInt(resp.req.id)
                /\ etudiants' = etudiants \ {row}
                /\ notes' = {n \in notes : n.etudiant_id # row.id}
      [] OTHER -> FALSE

\* C10: a step that answers 400, 404 or 500 leaves the rows of both tables
\* as they were; a handler's step that changes the rows answers with success;
\* and a successful POST or DELETE inserts exactly one row or deletes exactly
\* its target row (plus, for a student, the grades that reference it).
C10_FailuresWriteNothing ==
    [][/\ response'.status \in {400, 404, 500} => ~RowsChange
       /\ (RowsChange /\ initPc' = initPc) => response'.status = 200
       /\ (response'.status = 200 /\ response'.kind \in WriteKinds)
             => ExactEffect(response')]_vars

\* C10: a duplicate INSERT has just been refused, the stored row still there
C10_Witness ==
    /\ response.kind = "PostEtudiant"
    /\ response.status = 400
    /\ response.code = "23505"
    /\ etudiants # {}
\* C5: no two stored students share a matricule; and an INSERT of POST
\* /api/etudiants whose matricule, trimmed and upper-cased, is that of a stored
\* student is answered 400 'Ce matricule existe deja' and leaves the rows of
\* etudiants as they were.
C5_UniqueMatricule ==
    /\ [](\A e1 \in etudiants, e2 \in etudiants :
             e1.matricule = e2.matricule => e1 = e2)
    /\ [][\A r \in BagToSet(inflight) :
             (/\ r.kind = "PostEtudiant"
              /\ \E e \in etudiants :
                    e.matricule = ToUpperCase(Trim(r.matricule.v))
              /\ PostEtudiantInsert(r))
             => (/\ response'.status = 400
                 /\ response'.error = "Ce matricule existe deja"
                 /\ etudiants' = etudiants)]_vars

\* C5: the body with the matricule " M " has just been refused as a duplicate
\* of a stored row
C5_Witness ==
    /\ response.kind = "PostEtudiant"
    /\ response.status = 400
    /\ response.code = "23505"
    /\ response.req.matricule = Str(<<" ", "M", " ">>)
    /\ \E e \in etudiants : e.matricule = <<"M">>

\* missing, or empty once trimmed
Blank(x) == Falsy(x) \/ (x.t = "string" /\ Trim(x.v) = <<>>)

\* C8: a POST /api/etudiants whose nom, prenom or matricule is missing or
\* blank is answered 400, and no stored student has an empty nom, prenom or
\* matricule.
C8_BlankFieldsRejected ==
    /\ (/\ response.kind = "PostEtudiant"
        /\ \/ Blank(response.req.nom)
           \/ Blank(response.req.prenom)
           \/ Blank(response.req.matricule))
          => response.status = 400
    /\ \A e \in etudiants :
          e.nom # <<>> /\ e.prenom # <<>> /\ e.matricule # <<>>

\* the grades of the student id
NotesOf(id) == {n \in notes : n.etudiant_id = id}

\* C6 (as amended): GET /api/etudiants is answered 200, or 500 when a table is
\* missing; a 200 lists every stored student with nombre_notes the number of
\* its grades and moyenne null when it has none, and otherwise a number of
\* hundredths at most half a hundredth away from
\* sum(note * coefficient) / sum(coefficient).
C6_MoyenneRounded ==
    response.kind = "GetEtudiants" =>
        /\ response.status \in {200, 500}
        /\ response.status = 500 => ~(tblE /\ tblN)
        /\ response.status = 200 =>
              /\ {row.id : row \in response.body} = {e.id : e \in etudiants}
              /\ \A row \in response.body :
                    LET G == NotesOf(row.id)
                        W == SumWeighted(G)
                        C == SumCoefficients(G)
                        d == row.moyenne.v * C - W
                    IN  /\ row.nombre_notes = Cardinality(G)
                        /\ G = {} => row.moyenne = Null
                        /\ G # {} => /\ row.moyenne.t = "number"
                                     /\ 2 * d <= C
                                     /\ 2 * (0 - d) <= C

\* C6 (as stated): the moyenne of a student with grades is exactly
\* sum(note * coefficient) / sum(coefficient).
C6_MoyenneExact ==
    (response.kind = "GetEtudiants" /\ response.status = 200) =>
        \A row \in response.body :
            LET G == NotesOf(row.id)
            IN  /\ row.nombre_notes = Cardinality(G)
                /\ G = {} => row.moyenne = Null
                /\ G # {} => /\ row.moyenne.t = "number"
                             /\ row.moyenne.v * SumCoefficients(G)
                                   = SumWeighted(G)

\* C6: the grades (10, coefficient 1) and (16, coefficient 3) are listed with
\* the moyenne 14.50
C6_Witness ==
    /\ response.kind = "GetEtudiants"
    /\ response.status = 200
    /\ \E row \in response.body :
          /\ row.nombre_notes = 2
          /\ row.moyenne = Num(1450)
          /\ {<<n.note, n.coefficient>> : n \in NotesOf(row.id)}
                = {<<1000, 1>>, <<1600, 3>>}

\* C7: a POST /api/notes with etudiant_id, matiere and note present and its
\* student stored is answered 400 before any query when the note is outside
\* [0, 20] or the coefficient (1 when omitted) is outside [1, 10], and with
\* success otherwise; and every stored grade has its note in [0, 20] and its
\* coefficient in [1, 10].
C7_RangeValidation ==
    /\ \A n \in notes :
          /\ NoteMin * NoteScale <= n.note /\ n.note <= NoteMax * NoteScale
          /\ CoefMin <= n.coefficient /\ n.coefficient <= CoefMax
    /\ (/\ response.kind = "PostNote"
        /\ ~PostNoteMissing(response.req.etudiant_id, response.req.matiere,
                            response.req.note)
        /\ EtudiantStored(response.req))
          => LET r == response.req
                 c == IF r.coefficient = Undef THEN 1 * CoefInScale
                      ELSE r.coefficient.v
                 outside ==
                     \/ r.note.v < NoteMin * NoteInScale
                     \/ r.note.v > NoteMax * NoteInScale
                     \/ c < CoefMin * CoefInScale
                     \/ c > CoefMax * CoefInScale
             IN  IF outside
                 THEN response.status = 400 /\ response.queries = 0
                 ELSE response.status = 200

IdKinds == {"GetEtudiant", "DeleteEtudiant", "DeleteNote", "Export"}

\* a decimal numeral of a positive integer
IsPositiveInteger(s) ==
    s # <<>> /\ AllIn(s, Digits) /\ DecimalValue(s) >= 1

\* C9: a request to one of the four /:id routes whose id is no positive
\* integer is answered 400 'ID invalide' before any query; one whose id is
\* well formed and is not answered with success is answered 404.
C9_InvalidIdRejected ==
    response.kind \in IdKinds =>
        IF ~IsPositiveInteger(response.req.id)
        THEN /\ response.status = 400
             /\ response.error = "ID invalide"
             /\ response.queries = 0
        ELSE response.status \in {200, 404}
====
